---- MODULE Spec2Model ----
(***************************************************************************)
(* Model of the DynamoDB client (package dynamodb): the retry loop of      *)
(* Client.CallBytes, one signed exchange in Client.callRaw / Client.do     *)
(* with its HTTP goroutine and the context's cancellation, the             *)
(* classification of remote errors by Error.Info / Error.Retry, the        *)
(* generated codec Model.Encode / Model.Decode with toJSON, the generator  *)
(* parseFile of cmd/dynamodb-marshal, and the Table operations Get,        *)
(* Delete, Put, PutIf and Add against the remote table.                    *)
(*                                                                         *)
(* Each part has its own specification (Spec, SpecClassify, SpecCodec,     *)
(* SpecGen, SpecTable) over the one list of variables; a specification     *)
(* leaves the variables of the other parts at their idle values.           *)
(*                                                                         *)
(* Time is counted in milliseconds.  A string that the code only inspects  *)
(* for the '#' separator is a sequence of tokens: the token "#" is that    *)
(* byte, every other token is a non-empty run of bytes without '#'.        *)
(***************************************************************************)
EXTENDS Integers, Sequences, FiniteSets, TLC

VARIABLES
    client,           \* the Client: Retry, the transport's capability, the endpoint url
    pc,               \* where CallBytes stands: "call", "select", "waitErrc", "backoff", "done"
    attempt,          \* CallBytes' local attempt counter
    ctx,              \* the context: done (Done() is closed) and err (Err())
    gpc,              \* the goroutine started by do: "idle", "inflight", "exited"
    errc,             \* the channel errc of do (capacity 1)
    resp,             \* the variable resp shared by do and its goroutine
    cancelRequested,  \* CancelRequest(req) was called for the request in flight
    req,              \* the request built by the current callRaw
    nextId,           \* identity of the next *http.Request object
    now,              \* the wall clock, in ms
    sent,             \* the requests handed to c.web.Do, in order
    builtAt,          \* for each entry of sent, the clock when its callRaw began
    sleeps,           \* the durations of the backoff sleeps, in order
    result,           \* what CallBytes returned (when pc = "done")
    lastRaw,          \* what the most recent callRaw returned
    lastDo,           \* what the most recent do returned
    nCalls,           \* how many times callRaw was invoked
    cancelPc,         \* pc at the moment the context was cancelled
    sentAtCancel,     \* Len(sent) at the moment the context was cancelled
    e,                \* the Error handed to Error.Info / Error.Retry
    classified,       \* what Info and Retry answered for e
    m,                \* the Model record that Encode reads and Decode fills
    buf,              \* the document Model.Encode wrote
    data,             \* the DynamoItem handed to Model.Decode
    before,           \* the record as it was before Encode / before Decode
    cpc,              \* the codec's position: "start", "encoded", "item", "decoded", "idle"
    panicked,         \* Model.Decode ended in a run-time panic
    decl,             \* the fields of the struct declaration parseFile reads
    force,            \* the --force flag
    outFile,          \* the file at newpath: absent, hand-written or generated
    prevFile,         \* the file at newpath when parseFile began
    genpc,            \* the generator's position: "start", "done", "idle"
    store,            \* the remote table: for every key, the item stored or Absent
    item,             \* the record handed to the Table operation
    lastOp,           \* the most recent Table operation: arguments, payload, outcome
    addedLive,        \* keys put by a successful Add and not deleted since
    calls             \* two concurrent CallBytes invocations on the one Client

vars == <<client, pc, attempt, ctx, gpc, errc, resp, cancelRequested, req, nextId,
          now, sent, builtAt, sleeps, result, lastRaw, lastDo, nCalls, cancelPc,
          sentAtCancel, e, classified, m, buf, data, before, cpc, panicked,
          decl, force, outFile, prevFile, genpc, store, item, lastOp, addedLive,
          calls>>

callVars == <<client, pc, attempt, ctx, gpc, errc, resp, cancelRequested, req, nextId,
              now, sent, builtAt, sleeps, result, lastRaw, lastDo, nCalls, cancelPc,
              sentAtCancel>>
classifyVars == <<e, classified>>
codecVars == <<m, buf, data, before, cpc, panicked>>
genVars == <<decl, force, outFile, prevFile, genpc>>
tableVars == <<store, item, lastOp, addedLive>>
pairVars == <<calls>>

(***************************************************************************)
(* Bounds                                                                  *)
(***************************************************************************)
MaxRetry == 3        \* Client.Retry ranges over RetryForever..MaxRetry
MaxTicks == 2        \* the clock advances by itself at most this many times
MaxTypeLen == 3      \* tokens in the __type field of an error body
MaxStrLen == 2       \* bytes in a string handed to toJSON
MaxFields == 2       \* fields in the struct declaration given to the generator

(***************************************************************************)
(* Program constants                                                       *)
(***************************************************************************)
RetryDefault == 5
RetryForever == -1
RetryNever == 0
backoffFactor == 50
StatusOK == 200

(***************************************************************************)
(* Values                                                                  *)
(***************************************************************************)
NilErr == [type |-> "nil"]
ErrRetryExhausted == [type |-> "ErrRetryExhausted"]
CtxErrs == {[type |-> "ctx", what |-> "Canceled"], [type |-> "ctx", what |-> "DeadlineExceeded"]}
TransportErrs == {[type |-> "transport", what |-> "connection"],
                  [type |-> "transport", what |-> "timeout"]}
ErrCanceledRequest == [type |-> "transport", what |-> "request canceled"]
ErrReadBody == [type |-> "transport", what |-> "read body"]
ErrNewRequest == [type |-> "transport", what |-> "parse url"]

NilBody == [form |-> "nil"]
NilResp == [status |-> 0, body |-> NilBody, readOK |-> TRUE]
NilReq == [id |-> 0, datetime |-> -1, sig |-> <<>>]

Error(body, status) == [type |-> "Error", Body |-> body, StatusCode |-> status]
Object(t) == [form |-> "object", type |-> t]
Unparseable == [form |-> "unparseable"]

Tokens == {"#", "com.amazonaws.dynamodb.v20120810", "InternalServerError",
           "ProvisionedThroughputExceededException", "ServiceUnavailableException",
           "ValidationException"}
RECURSIVE SeqsUpTo(_, _)
SeqsUpTo(S, n) ==
    IF n = 0 THEN {<<>>}
    ELSE LET shorter == SeqsUpTo(S, n - 1) IN
         shorter \cup {Append(s, x) : s \in {t \in shorter : Len(t) = n - 1}, x \in S}

(***************************************************************************)
(* Error.Info and Error.Retry                                              *)
(***************************************************************************)
\* strings.Index(s, "#"): the 0-based index of the first "#", or -1
Index(s, tok) ==
    IF \E i \in 1..Len(s) : s[i] = tok
    THEN (CHOOSE i \in 1..Len(s) : s[i] = tok /\ \A j \in 1..(i - 1) : s[j] # tok) - 1
    ELSE -1

Info(err) ==
    IF err.Body.form = "nil" THEN <<>>
    ELSE IF err.Body.form = "unparseable" THEN <<>>
    ELSE LET errtype == err.Body.type
             idx == Index(errtype, "#")
         IN IF idx > 0 THEN SubSeq(errtype, idx + 2, Len(errtype)) ELSE errtype

\* a plausible slip: one case of the switch is missing
Retry_MissingCase(err) ==
    LET errtype == Info(err) IN
    errtype \in {<<"InternalServerError">>, <<"ProvisionedThroughputExceededException">>}

Retry(err) ==
    LET errtype == Info(err) IN
    CASE errtype = <<"InternalServerError">> -> TRUE
      [] errtype = <<"ProvisionedThroughputExceededException">> -> TRUE
      [] errtype = <<"ServiceUnavailableException">> -> TRUE
      [] OTHER -> FALSE

(***************************************************************************)
(* Client.newRequest: the request of one attempt and its signature          *)
(***************************************************************************)
Method == "GetItem"
Payload == "payload"
Endpoint == [host |-> "dynamodb.us-west-1.amazonaws.com", region |-> "us-west-1"]
Credentials == [accessKey |-> "access-key", secretKey |-> <<"AWS4", "secret-key">>]

\* time.Now().UTC().Format(iso8601): the clock cut to whole seconds
Format(t) == t \div 1000
\* datetime[:8]: the day of the timestamp
DateOf(datetime) == datetime \div 86400
\* the hash and keyed-hash primitives, as injective symbolic terms
sha256hex(msg) == <<"sha256", msg>>
doHMAC(key, msg) == <<"hmac", key, msg>>

\* a plausible slip: the host header is written before content-type
canonicalReq_HostFirst(datetime) ==
    << <<"POST">>, <<"/">>, <<"">>,
       <<"host:", Endpoint.host>>,
       <<"content-type:", "application/x-amz-json-1.0">>,
       <<"x-amz-date:", datetime>>,
       <<"x-amz-target:", "DynamoDB_20120810.", Method>>,
       <<"">>,
       <<"content-type;host;x-amz-date;x-amz-target">>,
       <<sha256hex(Payload)>> >>

\* the canonical request, as the sequence of its lines (the text between "\n"s)
canonicalReq(datetime) ==
    << <<"POST">>, <<"/">>, <<"">>,
       <<"content-type:", "application/x-amz-json-1.0">>,
       <<"host:", Endpoint.host>>,
       <<"x-amz-date:", datetime>>,
       <<"x-amz-target:", "DynamoDB_20120810.", Method>>,
       <<"">>,
       <<"content-type;host;x-amz-date;x-amz-target">>,
       <<sha256hex(Payload)>> >>

Signature(datetime) ==
    LET date == DateOf(datetime)
        post == <<"AWS4-HMAC-SHA256", datetime,
                  <<date, Endpoint.region, "dynamodb", "aws4_request">>,
                  sha256hex(canonicalReq(datetime))>>
    IN doHMAC(doHMAC(doHMAC(doHMAC(doHMAC(Credentials.secretKey, date),
                                   Endpoint.region), "dynamodb"), "aws4_request"), post)

\* a plausible slip: the request of the previous attempt is kept and sent again
newRequest_Reused(id, t) ==
    IF req # NilReq THEN req
    ELSE [id |-> id, datetime |-> Format(t), sig |-> Signature(Format(t))]

newRequest(id, t) ==
    [id |-> id, datetime |-> Format(t), sig |-> Signature(Format(t))]

(***************************************************************************)
(* Client.backoff                                                          *)
(***************************************************************************)
RECURSIVE Pow2(_)
Pow2(n) == IF n <= 0 THEN 1 ELSE 2 * Pow2(n - 1)

\* a plausible slip: the sleep grows linearly with the attempt
backoff_Linear(att) == att * backoffFactor

\* a plausible slip: the exponent starts at 0
backoff_FromZero(att) == Pow2(att - 1) * backoffFactor

\* the duration slept by backoff(attempt), in ms
backoff(att) == Pow2(att) * backoffFactor

(***************************************************************************)
(* Client.do: what each branch of the select returns                       *)
(***************************************************************************)
\* a plausible slip: the cancellation branch hands out the shared resp
doCtxBranch_ReturnsResp(r, cerr) == [resp |-> r, err |-> cerr]

\* case <-ctx.Done(): ... return nil, ctx.Err()
doCtxBranch(r, cerr) == [resp |-> NilResp, err |-> cerr]

\* case err := <-errc: return resp, err
doErrcBranch(r, err) == [resp |-> r, err |-> err]

(***************************************************************************)
(* Client.callRaw after do has returned                                    *)
(***************************************************************************)
\* a plausible slip: the body is dropped on success
callRaw_DropsBody(d) ==
    IF d.err # NilErr THEN [bytes |-> NilBody, err |-> d.err]
    ELSE IF ~d.resp.readOK THEN [bytes |-> NilBody, err |-> ErrReadBody]
    ELSE IF d.resp.status # StatusOK
         THEN [bytes |-> NilBody, err |-> Error(d.resp.body, d.resp.status)]
    ELSE [bytes |-> NilBody, err |-> NilErr]

callRaw(d) ==
    IF d.err # NilErr THEN [bytes |-> NilBody, err |-> d.err]
    ELSE IF ~d.resp.readOK THEN [bytes |-> NilBody, err |-> ErrReadBody]
    ELSE IF d.resp.status # StatusOK
         THEN [bytes |-> NilBody, err |-> Error(d.resp.body, d.resp.status)]
    ELSE [bytes |-> d.resp.body, err |-> NilErr]

(***************************************************************************)
(* Client.CallBytes: one turn of the loop, given what callRaw returned     *)
(***************************************************************************)
Return(b, err, att) == [next |-> "return", bytes |-> b, err |-> err, attempt |-> att]
Backoff(att) == [next |-> "backoff", bytes |-> NilBody, err |-> NilErr, attempt |-> att]

\* a plausible slip: every failure is reported as ErrRetryExhausted
CallBytes_MasksError(raw, att, retry) ==
    IF raw.err = NilErr THEN Return(raw.bytes, NilErr, att)
    ELSE IF raw.err.type = "Error" /\ Retry(raw.err) /\ att + 1 < retry THEN Backoff(att + 1)
    ELSE Return(NilBody, ErrRetryExhausted, att)

CallBytes(raw, att, retry) ==
    IF raw.err = NilErr THEN Return(raw.bytes, NilErr, att)
    ELSE IF raw.err.type = "Error"
         THEN IF Retry(raw.err)
              THEN IF att + 1 >= retry
                   THEN Return(NilBody, ErrRetryExhausted, att + 1)
                   ELSE Backoff(att + 1)
              ELSE Return(NilBody, raw.err, att)
    ELSE Return(NilBody, raw.err, att)

(***************************************************************************)
(* The environment of one CallBytes call                                   *)
(***************************************************************************)
TickMs == 600
Statuses == {StatusOK, 400, 500}
\* the bodies the service answers with
Bodies ==
    {Unparseable, Object(<<>>),
     Object(<<"InternalServerError">>),
     Object(<<"com.amazonaws.dynamodb.v20120810", "#", "ProvisionedThroughputExceededException">>),
     Object(<<"#", "ServiceUnavailableException">>),
     Object(<<"com.amazonaws.dynamodb.v20120810", "#", "ValidationException">>)}
\* what c.web.Do(req) can return
Responses ==
    {[status |-> s, body |-> b, readOK |-> TRUE] : s \in Statuses, b \in Bodies}
    \cup {[status |-> s, body |-> Unparseable, readOK |-> FALSE] : s \in Statuses}
WebDoReturns(canceled) ==
    {[resp |-> r, err |-> NilErr] : r \in Responses}
    \cup {[resp |-> NilResp, err |-> te] :
            te \in TransportErrs \cup (IF canceled THEN {ErrCanceledRequest} ELSE {})}

(***************************************************************************)
(* The generated codec of cmd/dynamodb-marshal: Model.Encode, toJSON and   *)
(* Model.Decode.  A Go string or []byte is the sequence of its bytes.      *)
(***************************************************************************)
\* s[a:b] of Go, with 0-based a and b
Slice(s, a, b) == SubSeq(s, a + 1, b)

\* utf8.DecodeRuneInString at the 0-based index i of s: whether a well-formed
\* encoding starts there, and its size (1 when there is none)
DecodeRuneInString(s, i) ==
    LET n == Len(s) - i
        b0 == s[i + 1]
        cont(k) == k < n /\ s[i + 1 + k] \in 128..191
        second(lo, hi) == 1 < n /\ s[i + 2] \in lo..hi
    IN  CASE b0 < 128 -> [ok |-> TRUE, size |-> 1]
          [] b0 \in 194..223 /\ cont(1) -> [ok |-> TRUE, size |-> 2]
          [] b0 = 224 /\ second(160, 191) /\ cont(2) -> [ok |-> TRUE, size |-> 3]
          [] b0 \in (225..236) \cup {238, 239} /\ cont(1) /\ cont(2) -> [ok |-> TRUE, size |-> 3]
          [] b0 = 237 /\ second(128, 159) /\ cont(2) -> [ok |-> TRUE, size |-> 3]
          [] b0 = 240 /\ second(144, 191) /\ cont(2) /\ cont(3) -> [ok |-> TRUE, size |-> 4]
          [] b0 \in 241..243 /\ cont(1) /\ cont(2) /\ cont(3) -> [ok |-> TRUE, size |-> 4]
          [] b0 = 244 /\ second(128, 143) /\ cont(2) /\ cont(3) -> [ok |-> TRUE, size |-> 4]
          [] OTHER -> [ok |-> FALSE, size |-> 1]

\* const hex = "0123456789abcdef"
hex == <<48, 49, 50, 51, 52, 53, 54, 55, 56, 57, 97, 98, 99, 100, 101, 102>>
\* the bytes below utf8.RuneSelf that toJSON copies unchanged
PassesUnescaped(b) == b >= 32 /\ b \notin {92, 34, 60, 62, 38}
\* a plausible slip: newline is written as the escape of carriage return
EscapeOf_NewlineAsCR(b) ==
    CASE b \in {92, 34} -> <<92, b>>
      [] b \in {10, 13} -> <<92, 114>>
      [] OTHER -> <<92, 117, 48, 48, hex[(b \div 16) + 1], hex[(b % 16) + 1]>>
\* the replacement toJSON writes for a byte below utf8.RuneSelf that it does not copy
EscapeOf(b) ==
    CASE b \in {92, 34} -> <<92, b>>
      [] b = 10 -> <<92, 110>>
      [] b = 13 -> <<92, 114>>
      [] OTHER -> <<92, 117, 48, 48, hex[(b \div 16) + 1], hex[(b % 16) + 1]>>
\* the six bytes of the text "\\ufffd"
EscapedReplacement == <<92, 117, 102, 102, 102, 100>>

\* a plausible slip: '&' is copied unchanged
RECURSIVE toJSON_AmpersandPasses(_, _, _, _)
toJSON_AmpersandPasses(s, i, start, out) ==
    IF i >= Len(s)
    THEN IF start < Len(s) THEN out \o Slice(s, start, Len(s)) ELSE out
    ELSE LET b == s[i + 1]
             flushed == IF start < i THEN out \o Slice(s, start, i) ELSE out
         IN  IF b < 128
             THEN IF PassesUnescaped(b) \/ b = 38
                  THEN toJSON_AmpersandPasses(s, i + 1, start, out)
                  ELSE toJSON_AmpersandPasses(s, i + 1, i + 1, flushed \o EscapeOf(b))
             ELSE LET c == DecodeRuneInString(s, i) IN
                  IF ~c.ok /\ c.size = 1
                  THEN toJSON_AmpersandPasses(s, i + 1, i + 1, flushed \o EscapedReplacement)
                  ELSE toJSON_AmpersandPasses(s, i + c.size, start, out)

\* toJSON(s, buf): the loop over s with its indices i and start; out is what was
\* written to buf
RECURSIVE toJSON(_, _, _, _)
toJSON(s, i, start, out) ==
    IF i >= Len(s)
    THEN IF start < Len(s) THEN out \o Slice(s, start, Len(s)) ELSE out
    ELSE LET b == s[i + 1]
             flushed == IF start < i THEN out \o Slice(s, start, i) ELSE out
         IN  IF b < 128
             THEN IF PassesUnescaped(b)
                  THEN toJSON(s, i + 1, start, out)
                  ELSE toJSON(s, i + 1, i + 1, flushed \o EscapeOf(b))
             ELSE LET c == DecodeRuneInString(s, i) IN
                  IF ~c.ok /\ c.size = 1
                  THEN toJSON(s, i + 1, i + 1, flushed \o EscapedReplacement)
                  ELSE toJSON(s, i + c.size, start, out)

\* base64.StdEncoding: the character of a 6-bit value, and the value of a character
\* (-1 for a byte outside the alphabet)
b64char(v) ==
    CASE v < 26 -> 65 + v
      [] v \in 26..51 -> 97 + (v - 26)
      [] v \in 52..61 -> 48 + (v - 52)
      [] v = 62 -> 43
      [] OTHER -> 47
b64val(c) ==
    CASE c \in 65..90 -> c - 65
      [] c \in 97..122 -> c - 97 + 26
      [] c \in 48..57 -> c - 48 + 52
      [] c = 43 -> 62
      [] c = 47 -> 63
      [] OTHER -> -1

\* base64.StdEncoding.EncodeToString: three bytes become four characters, a last
\* group of one or two bytes is padded with '='
RECURSIVE EncodeToString(_)
EncodeToString(src) ==
    IF Len(src) = 0 THEN <<>>
    ELSE IF Len(src) >= 3
    THEN LET v == src[1] * 65536 + src[2] * 256 + src[3] IN
         <<b64char(v \div 262144), b64char((v \div 4096) % 64),
           b64char((v \div 64) % 64), b64char(v % 64)>>
         \o EncodeToString(SubSeq(src, 4, Len(src)))
    ELSE IF Len(src) = 2
    THEN LET v == src[1] * 65536 + src[2] * 256 IN
         <<b64char(v \div 262144), b64char((v \div 4096) % 64), b64char((v \div 64) % 64), 61>>
    ELSE LET v == src[1] * 65536 IN
         <<b64char(v \div 262144), b64char((v \div 4096) % 64), 61, 61>>

\* base64.StdEncoding.DecodeString, whose error the callers drop: the bytes of the
\* quanta decoded before the input ends or stops being base64
RECURSIVE DecodeString(_)
DecodeString(t) ==
    IF Len(t) < 4 THEN <<>>
    ELSE LET a == b64val(t[1])
             b == b64val(t[2])
             c == b64val(t[3])
             d == b64val(t[4])
         IN  IF a >= 0 /\ b >= 0 /\ c >= 0 /\ d >= 0
             THEN LET v == a * 262144 + b * 4096 + c * 64 + d IN
                  <<v \div 65536, (v \div 256) % 256, v % 256>>
                  \o DecodeString(SubSeq(t, 5, Len(t)))
             ELSE IF a >= 0 /\ b >= 0 /\ c >= 0 /\ t[4] = 61 /\ Len(t) = 4
             THEN LET v == a * 262144 + b * 4096 + c * 64 IN <<v \div 65536, (v \div 256) % 256>>
             ELSE IF a >= 0 /\ b >= 0 /\ t[3] = 61 /\ t[4] = 61 /\ Len(t) = 4
             THEN <<(a * 262144 + b * 4096) \div 65536>>
             ELSE <<>>

\* strconv.FormatInt(n, 10)
RECURSIVE FormatInt(_)
FormatInt(n) ==
    IF n < 0 THEN <<45>> \o FormatInt(-n)
    ELSE IF n < 10 THEN <<48 + n>>
    ELSE Append(FormatInt(n \div 10), 48 + (n % 10))

\* strconv.ParseInt(s, 10, 64), whose error the callers drop: the value of an
\* optionally signed run of decimal digits, and 0 for any other text
RECURSIVE digitsValue(_)
digitsValue(d) ==
    IF d = <<>> THEN 0 ELSE digitsValue(SubSeq(d, 1, Len(d) - 1)) * 10 + (d[Len(d)] - 48)
ParseInt(s) ==
    LET signed == Len(s) > 0 /\ s[1] \in {43, 45}
        d == IF signed THEN Tail(s) ELSE s
    IN  IF Len(d) = 0 \/ \E i \in 1..Len(d) : d[i] \notin 48..57 THEN 0
        ELSE IF signed /\ s[1] = 45 THEN 0 - digitsValue(d) ELSE digitsValue(d)

\* time.Time: an instant that Unix nanoseconds can name, or the zero Time (year 1),
\* which they cannot
ZeroTime == [era |-> "zero", ns |-> 0]
UnixTime(n) == [era |-> "unix", ns |-> n]
\* the int64 values standing for "any int64" where the library leaves a result undefined
SomeNanos == {0, 1, 1234567890}
\* Time.UnixNano: undefined for an instant outside the int64 range of nanoseconds
UnixNano(t) == IF t.era = "unix" THEN {t.ns} ELSE SomeNanos

ZeroModel ==
    [Bool |-> FALSE, Byte |-> <<>>, ByteSlice |-> <<>>, Int |-> 0, IntSlice |-> <<>>,
     String |-> <<>>, StringSlice |-> <<>>, Time |-> ZeroTime]

\* One member "name":{"tag":value} of the document Encode writes.  The value is a
\* string literal, kept as the bytes between its quotes, or an array of them; the
\* punctuation around them is the fixed text of Encode's WriteString calls.
Member(name, tag, val) == [name |-> name, tag |-> tag, val |-> val]
Literal(bytes) == [k |-> "string", lit |-> bytes]
Literals(seq) == [k |-> "array", elems |-> seq]

\* Model.Encode; nanos is what m.Time.UnixNano() returned
Encode(rec, nanos) ==
    << Member("Bool", "N", Literal(IF rec.Bool THEN <<49>> ELSE <<48>>)),
       Member("Byte", "B", Literal(EncodeToString(rec.Byte))),
       Member("ByteSlice", "BS",
              Literals([i \in 1..Len(rec.ByteSlice) |-> EncodeToString(rec.ByteSlice[i])])),
       Member("Int", "N", Literal(FormatInt(rec.Int))),
       Member("IntSlice", "NS",
              Literals([i \in 1..Len(rec.IntSlice) |-> FormatInt(rec.IntSlice[i])])),
       Member("String", "S", Literal(toJSON(rec.String, 0, 0, <<>>))),
       Member("StringSlice", "SS",
              Literals([i \in 1..Len(rec.StringSlice) |->
                           toJSON(rec.StringSlice[i], 0, 0, <<>>)])),
       Member("Time", "N", Literal(FormatInt(nanos))) >>

\* encoding/json reading a string literal: the value of a hex digit, the UTF-8
\* encoding of a rune of the basic plane, and the bytes the literal stands for
hexval(c) ==
    CASE c \in 48..57 -> c - 48
      [] c \in 97..102 -> c - 87
      [] OTHER -> c - 55
EncodeRune(r) ==
    IF r < 128 THEN <<r>>
    ELSE IF r < 2048 THEN <<192 + (r \div 64), 128 + (r % 64)>>
    ELSE <<224 + (r \div 4096), 128 + ((r \div 64) % 64), 128 + (r % 64)>>
RECURSIVE unquote(_, _, _)
unquote(s, i, out) ==
    IF i >= Len(s) THEN out
    ELSE LET b == s[i + 1] IN
         IF b = 92
         THEN LET c == s[i + 2] IN
              IF c = 117
              THEN LET r == hexval(s[i + 3]) * 4096 + hexval(s[i + 4]) * 256
                            + hexval(s[i + 5]) * 16 + hexval(s[i + 6])
                   IN unquote(s, i + 6, out \o EncodeRune(r))
              ELSE unquote(s, i + 2,
                           Append(out, CASE c = 110 -> 10
                                         [] c = 114 -> 13
                                         [] c = 116 -> 9
                                         [] c = 98 -> 8
                                         [] c = 102 -> 12
                                         [] OTHER -> c))
         ELSE IF b < 128 THEN unquote(s, i + 1, Append(out, b))
         ELSE LET d == DecodeRuneInString(s, i) IN
              IF d.ok THEN unquote(s, i + d.size, out \o Slice(s, i, i + d.size))
              ELSE unquote(s, i + 1, out \o EncodeRune(65533))

\* the values json.Unmarshal stores in an interface{}
JString(s) == [k |-> "string", s |-> s]
JNumber(n) == [k |-> "number", n |-> n]
JArray(a) == [k |-> "array", a |-> a]
JBool(b) == [k |-> "bool", b |-> b]
JNull == [k |-> "null"]

\* json.Unmarshal of the document into a map[string]map[string]interface{}
Unmarshal(doc) ==
    LET value(v) == IF v.k = "string" THEN JString(unquote(v.lit, 0, <<>>))
                    ELSE JArray([i \in 1..Len(v.elems) |-> JString(unquote(v.elems[i], 0, <<>>))])
        last(name) == CHOOSE i \in 1..Len(doc) :
                          doc[i].name = name /\ \A j \in (i + 1)..Len(doc) : doc[j].name # name
    IN  [name \in {doc[i].name : i \in 1..Len(doc)} |->
            (doc[last(name)].tag :> value(doc[last(name)].val))]

\* data[name][tag]: indexing a missing map or key yields the nil interface
Lookup(d, name, tag) ==
    IF name \in DOMAIN d /\ tag \in DOMAIN d[name] THEN d[name][tag] ELSE JNull

\* for _, sval := range vals { val := sval.(string); ... append ... }: the unchecked
\* assertion panics at the first element that is not a string, after the elements
\* before it were appended; this is how many elements are appended
appended(vals) ==
    LET bad == {i \in 1..Len(vals) : vals[i].k # "string"} IN
    IF bad = {} THEN Len(vals) ELSE (CHOOSE i \in bad : \A j \in bad : i <= j) - 1

\* Model.Decode, one statement per field, in the order of the code; st carries the
\* record and whether an earlier statement panicked
decodeBool(st, d) ==
    LET v == Lookup(d, "Bool", "N") IN
    IF st.panicked \/ v.k # "string" THEN st
    ELSE IF v.s = <<49>> THEN [st EXCEPT !.m.Bool = TRUE]
    ELSE IF v.s = <<48>> THEN [st EXCEPT !.m.Bool = FALSE]
    ELSE st
decodeByte(st, d) ==
    LET v == Lookup(d, "Byte", "B") IN
    IF st.panicked \/ v.k # "string" THEN st
    ELSE [st EXCEPT !.m.Byte = DecodeString(v.s)]
decodeByteSlice(st, d) ==
    LET v == Lookup(d, "ByteSlice", "BS") IN
    IF st.panicked \/ v.k # "array" THEN st
    ELSE LET n == appended(v.a) IN
         [m |-> [st.m EXCEPT !.ByteSlice = @ \o [i \in 1..n |-> DecodeString(v.a[i].s)]],
          panicked |-> n < Len(v.a)]
decodeInt(st, d) ==
    LET v == Lookup(d, "Int", "N") IN
    IF st.panicked \/ v.k # "string" THEN st
    ELSE [st EXCEPT !.m.Int = ParseInt(v.s)]
decodeIntSlice(st, d) ==
    LET v == Lookup(d, "IntSlice", "NS") IN
    IF st.panicked \/ v.k # "array" THEN st
    ELSE LET n == appended(v.a) IN
         [m |-> [st.m EXCEPT !.IntSlice = @ \o [i \in 1..n |-> ParseInt(v.a[i].s)]],
          panicked |-> n < Len(v.a)]
\* a plausible slip: a missing or mismatched attribute resets the field
decodeString_ResetsField(st, d) ==
    LET v == Lookup(d, "String", "S") IN
    IF st.panicked THEN st
    ELSE IF v.k # "string" THEN [st EXCEPT !.m.String = <<>>]
    ELSE [st EXCEPT !.m.String = v.s]
decodeString(st, d) ==
    LET v == Lookup(d, "String", "S") IN
    IF st.panicked \/ v.k # "string" THEN st
    ELSE [st EXCEPT !.m.String = v.s]
decodeStringSlice(st, d) ==
    LET v == Lookup(d, "StringSlice", "SS") IN
    IF st.panicked \/ v.k # "array" THEN st
    ELSE LET n == appended(v.a) IN
         [m |-> [st.m EXCEPT !.StringSlice = @ \o [i \in 1..n |-> v.a[i].s]],
          panicked |-> n < Len(v.a)]
decodeTime(st, d) ==
    LET v == Lookup(d, "Time", "N") IN
    IF st.panicked \/ v.k # "string" THEN st
    ELSE [st EXCEPT !.m.Time = UnixTime(ParseInt(v.s))]

Decode(rec, d) ==
    decodeTime(decodeStringSlice(decodeString(decodeIntSlice(decodeInt(
        decodeByteSlice(decodeByte(decodeBool([m |-> rec, panicked |-> FALSE], d), d), d),
        d), d), d), d), d)

(***************************************************************************)
(* The generator dynamodb-marshal: parseFile reads the fields of a struct  *)
(* declaration and writes <name>_marshal.go.  Names, tags and the text of  *)
(* the emitted WriteString calls are byte sequences.                       *)
(***************************************************************************)
\* the field types of the syntax tree parseFile looks at
Ident(name) == [node |-> "Ident", name |-> name]
SliceOf(elt) == [node |-> "ArrayType", elt |-> elt]
Selector(x, sel) == [node |-> "SelectorExpr", x |-> x, sel |-> sel]

\* the switch on field.Type: the kind of a supported type, "" for any other
kindOf(type) ==
    CASE type.node = "Ident" ->
            IF type.name \in {"bool", "string", "int", "int64", "uint", "uint64"}
            THEN type.name ELSE ""
      [] type.node = "ArrayType" ->
            ( CASE type.elt.node = "Ident" ->
                      IF type.elt.name \in {"byte", "bool", "string", "int", "int64",
                                            "uint", "uint64"}
                      THEN "[]" \o type.elt.name ELSE ""
                [] type.elt.node = "ArrayType" ->
                      IF type.elt.elt.node = "Ident" /\ type.elt.elt.name = "byte"
                      THEN "[][]byte" ELSE ""
                [] OTHER -> "" )
      [] type.node = "SelectorExpr" ->
            IF type.x = "time" /\ type.sel = "Time" THEN "time" ELSE ""
      [] OTHER -> ""

\* unicode.IsUpper of the first rune of a name (names here are ASCII)
IsUpper(name) == Len(name) > 0 /\ name[1] \in 65..90

\* the body of the loop over s.Fields.List for one field: the fieldInfo appended
\* to fields, or none when the field is skipped
fieldInfoOf(field) ==
    LET dbName == IF field.tag # <<>> THEN field.tag ELSE field.name
        kind == kindOf(field.type)
    IN  IF field.tag = <<45>> THEN <<>>
        ELSE IF field.tag = <<>> /\ ~IsUpper(field.name) THEN <<>>
        ELSE IF kind = "" THEN <<>>
        ELSE <<[dbName |-> dbName, kind |-> kind, name |-> field.name]>>

RECURSIVE fieldsOf(_)
fieldsOf(list) ==
    IF list = <<>> THEN <<>> ELSE fieldInfoOf(Head(list)) \o fieldsOf(Tail(list))

\* var kindMap
kindMap ==
    [k \in {"[]byte", "bool", "int", "int64", "string", "time", "uint", "uint64",
            "[][]byte", "[]bool", "[]int", "[]int64", "[]string"} |->
        CASE k = "[]byte" -> <<66>>
          [] k = "string" -> <<83>>
          [] k = "[][]byte" -> <<66, 83>>
          [] k \in {"[]bool", "[]int", "[]int64"} -> <<78, 83>>
          [] k = "[]string" -> <<83, 83>>
          [] OTHER -> <<78>>]

\* the statements parseFile emits into the generated Encode
WriteString(text) == [stmt |-> "WriteString", text |-> text]
WriteValue(kind, name) == [stmt |-> "write", kind |-> kind, selector |-> name]
RangeWrite(kind, name) == [stmt |-> "range", kind |-> kind, selector |-> name]
\* and into the generated Decode
ReadValue(dbName, dbKind, kind, name) ==
    [stmt |-> "read", dbName |-> dbName, dbKind |-> dbKind, kind |-> kind, selector |-> name]
ReadMulti(dbName, dbKind, kind, name) ==
    [stmt |-> "readMulti", dbName |-> dbName, dbKind |-> dbKind, kind |-> kind,
     selector |-> name]

\* the loop that emits Encode: idx is 0-based, close the text owed by the previous
\* field, out the statements emitted so far
RECURSIVE emitEncode(_, _, _, _, _)
emitEncode(fields, idx, close, written, out) ==
    IF idx >= Len(fields)
    THEN IF written
         THEN Append(out, WriteString(SubSeq(close, 1, Len(close) - 1) \o <<125>>))
         ELSE out
    ELSE LET field == fields[idx + 1] IN
         IF field.kind \notin DOMAIN kindMap
         THEN emitEncode(fields, idx + 1, close, written, out)
         ELSE LET dbKind == kindMap[field.kind]
                  isSet == Len(dbKind) = 2
                  prefix == IF isSet THEN <<91>> ELSE <<34>>
                  suffix == IF isSet THEN <<93>> ELSE <<34>>
                  open == close \o field.dbName \o <<34, 58, 123, 34>> \o dbKind
                          \o <<34, 58>> \o prefix
                  comma == IF idx = Len(fields) - 1 THEN <<>> ELSE <<44>>
                  value == IF isSet
                           THEN RangeWrite(field.kind, field.name)
                           ELSE WriteValue(field.kind, field.name)
              IN emitEncode(fields, idx + 1, suffix \o <<125>> \o comma \o <<34>>, TRUE,
                            out \o <<WriteString(open), value>>)

\* the loop that emits Decode
RECURSIVE emitDecode(_)
emitDecode(fields) ==
    IF fields = <<>> THEN <<>>
    ELSE LET field == Head(fields) IN
         IF field.kind \notin DOMAIN kindMap THEN emitDecode(Tail(fields))
         ELSE LET dbKind == kindMap[field.kind] IN
              << IF Len(dbKind) = 2
                 THEN ReadMulti(field.dbName, dbKind, field.kind, field.name)
                 ELSE ReadValue(field.dbName, dbKind, field.kind, field.name) >>
              \o emitDecode(Tail(fields))

\* what parseFile writes to newpath for a struct with these fields
Generated(list) ==
    LET fields == fieldsOf(list) IN
    [by |-> "dynamodb-marshal",
     encode |-> emitEncode(fields, 0, <<123, 34>>, FALSE, <<>>),
     decode |-> emitDecode(fields)]

\* parseFile: the content of newpath after the call; the test of os.Stat and force
\* only logs, and os.Create truncates the file
parseFile(list, exists, frc, old) == Generated(list)

\* the struct declarations given to the generator
NoFile == [by |-> "nobody"]
HandEdited == [by |-> "hand"]
FieldTypes ==
    {Ident("string"), Ident("float64"), SliceOf(Ident("int")), SliceOf(Ident("uint")),
     Selector("time", "Time")}
\* no tag, the tag "-", the tag "a"
FieldTags == {<<>>, <<45>>, <<97>>}
\* the i-th field is named by the i-th capital letter or the i-th small letter
FieldsAt(i) ==
    [name : {<<65 + i>>, <<97 + i>>}, tag : FieldTags, type : FieldTypes]
RECURSIVE DeclsUpTo(_)
DeclsUpTo(n) ==
    IF n = 0 THEN {<<>>}
    ELSE LET shorter == DeclsUpTo(n - 1) IN
         shorter \cup {Append(d, f) : d \in {x \in shorter : Len(x) = n - 1}, f \in FieldsAt(n)}

(***************************************************************************)
(* Table.Get, Delete, Put, PutIf and Add on records of the type MyItem of  *)
(* the tests, and the table of the remote store they act on.               *)
(***************************************************************************)
TableName == "Test"
MyItems == [Name : {"Tom", "Ann"}, Weight : {0, 80}, Height : {179, 180}]

\* The reflection codec behind encode, decode and getTypeInfo, written from the
\* wire format of the specification (4.1) and from the calls in Table:
\* getTypeInfo lists the fields with the attribute name and key role of their tag
getTypeInfo(rec) ==
    << [field |-> "Name", name |-> "MyItem2", kind |-> "string", keyType |-> "HASH"],
       [field |-> "Weight", name |-> "Weight", kind |-> "int", keyType |-> ""],
       [field |-> "Height", name |-> "Height", kind |-> "int", keyType |-> ""] >>
\* an AttributeValue: text under S, an integer as decimal text under N
AttributeValue(kind, v) ==
    IF kind = "string" THEN [T |-> "S", v |-> v] ELSE [T |-> "N", v |-> FormatInt(v)]
\* encode(item, buf, keyOnly, expected): the attributes of the record, only those of
\* the key when keyOnly, each wrapped as {"Value": ...} when expected
encode(rec, keyOnly, expected) ==
    LET fields == getTypeInfo(rec)
        used == {i \in 1..Len(fields) : ~keyOnly \/ fields[i].keyType # ""}
        at(name) == CHOOSE i \in used : fields[i].name = name
        value(i) == AttributeValue(fields[i].kind, rec[fields[i].field])
    IN  [name \in {fields[i].name : i \in used} |->
            IF expected THEN [Value |-> value(at(name))] ELSE value(at(name))]
\* decode(item, Item): every field whose attribute is there under its tag is set
decode(rec, it) ==
    LET fields == getTypeInfo(rec)
        at(f) == CHOOSE i \in 1..Len(fields) : fields[i].field = f
        tag(f) == IF fields[at(f)].kind = "string" THEN "S" ELSE "N"
        name(f) == fields[at(f)].name
    IN  [f \in DOMAIN rec |->
            IF name(f) \in DOMAIN it /\ it[name(f)].T = tag(f)
            THEN IF tag(f) = "S" THEN it[name(f)].v ELSE ParseInt(it[name(f)].v)
            ELSE rec[f]]

\* the payloads the Table operations format
GetPayload(rec, consistent) ==
    [TableName |-> TableName, Key |-> encode(rec, TRUE, FALSE), ConsistentRead |-> consistent]
DeletePayload(rec) == [TableName |-> TableName, Key |-> encode(rec, TRUE, FALSE)]
PutPayload(rec) == [TableName |-> TableName, Item |-> encode(rec, FALSE, FALSE)]
\* a plausible slip: the expectation is built from newItem
PutIfPayload_ExpectsNew(newItem, oldItem) ==
    [TableName |-> TableName, Item |-> encode(newItem, FALSE, FALSE),
     Expected |-> encode(newItem, FALSE, TRUE)]
PutIfPayload(newItem, oldItem) ==
    [TableName |-> TableName, Item |-> encode(newItem, FALSE, FALSE),
     Expected |-> encode(oldItem, FALSE, TRUE)]
\* a plausible slip: Add expects nothing, as Put
AddPayload_NoExpectation(rec) ==
    LET none == {} IN
    [TableName |-> TableName, Item |-> encode(rec, FALSE, FALSE),
     Expected |-> [name \in none |-> [Exists |-> FALSE]]]
AddPayload(rec) ==
    LET fields == getTypeInfo(rec)
        keys == {fields[i].name : i \in {j \in 1..Len(fields) : fields[j].keyType # ""}}
    IN  [TableName |-> TableName, Item |-> encode(rec, FALSE, FALSE),
         Expected |-> [name \in keys |-> [Exists |-> FALSE]]]

\* The remote table, keyed by its HASH attribute: PutItem, GetItem and DeleteItem
\* as the service answers them, a write being applied only if every entry of
\* Expected holds of the item stored under the key
KeyOf(doc) == doc["MyItem2"].v
ConditionalCheckFailed ==
    [status |-> 400,
     body |-> Object(<<"com.amazonaws.dynamodb.v20120810", "#",
                       "ConditionalCheckFailedException">>),
     readOK |-> TRUE]
Answer(body) == [status |-> StatusOK, body |-> body, readOK |-> TRUE]
Holds(expected, st, k) ==
    \A name \in DOMAIN expected :
        IF "Exists" \in DOMAIN expected[name]
        THEN k \notin DOMAIN st \/ name \notin DOMAIN st[k]
        ELSE k \in DOMAIN st /\ name \in DOMAIN st[k] /\ st[k][name] = expected[name].Value
PutItem(st, payload) ==
    LET k == KeyOf(payload.Item) IN
    IF "Expected" \in DOMAIN payload /\ ~Holds(payload.Expected, st, k)
    THEN [store |-> st, resp |-> ConditionalCheckFailed]
    ELSE [store |-> [x \in DOMAIN st \cup {k} |-> IF x = k THEN payload.Item ELSE st[x]],
          resp |-> Answer(Object(<<>>))]
GetItem(st, payload) ==
    LET k == KeyOf(payload.Key) IN
    [store |-> st,
     resp |-> IF k \in DOMAIN st
              THEN Answer([form |-> "object", type |-> <<>>, Item |-> st[k]])
              ELSE Answer(Object(<<>>))]
DeleteItem(st, payload) ==
    LET k == KeyOf(payload.Key) IN
    [store |-> [x \in DOMAIN st \ {k} |-> st[x]], resp |-> Answer(Object(<<>>))]

\* t.client.CallBytes(ctx, method, payload) once the service has answered
Call(answer) ==
    LET d == CallBytes(callRaw(doErrcBranch(answer, NilErr)), 0, client.Retry) IN
    [bytes |-> d.bytes, err |-> d.err]

ErrItemDoesNotExist == [type |-> "errors.New", what |-> "Item does not exist"]
\* a plausible slip: the test for a missing Item is left out
GetResult_NoItemTest(rec, called) ==
    IF called.err # NilErr THEN [err |-> called.err, item |-> rec]
    ELSE IF "Item" \notin DOMAIN called.bytes THEN [err |-> NilErr, item |-> rec]
    ELSE [err |-> NilErr, item |-> decode(rec, called.bytes.Item)]
\* Table.Get after CallBytes: the error it returns and the record it leaves
GetResult(rec, called) ==
    IF called.err # NilErr THEN [err |-> called.err, item |-> rec]
    ELSE IF "Item" \notin DOMAIN called.bytes THEN [err |-> ErrItemDoesNotExist, item |-> rec]
    ELSE [err |-> NilErr, item |-> decode(rec, called.bytes.Item)]

EmptyTable == [k \in {} |-> <<>>]

(***************************************************************************)
(* The records and Items the codec is run on                               *)
(***************************************************************************)
\* the bytes strings are made of: newline, carriage return, another control byte,
\* quote, backslash, '<', '>', '&', a letter, DEL, the two bytes of U+00E9, and 0xFF
StrBytes == {10, 13, 1, 34, 92, 60, 62, 38, 65, 127, 195, 169, 255}
Strings == SeqsUpTo(StrBytes, MaxStrLen)

\* the record of the benchmarks (testModel), with shorter slices
Populated ==
    [Bool |-> TRUE, Byte |-> <<123, 125>>, ByteSlice |-> << <<123, 125>> >>,
     Int |-> 1234567890, IntSlice |-> <<1, 2, 3>>, String |-> <<65, 65>>,
     StringSlice |-> << <<65>>, <<65, 65>> >>, Time |-> UnixTime(1234567890)]

Records ==
    {[Populated EXCEPT !.String = str, !.StringSlice = <<>>] : str \in Strings}
    \cup {[Populated EXCEPT !.String = str, !.StringSlice = <<str, <<65>> >>] : str \in Strings}
    \cup [Bool : BOOLEAN,
          Byte : {<<>>, <<255>>, <<123, 125>>, <<1, 2, 3, 4>>},
          ByteSlice : {<<>>, << <<255>>, <<>> >>},
          Int : {0, -1, 42},
          IntSlice : {<<>>, <<-5, 0>>},
          String : {<<65>>},
          StringSlice : {<<>>},
          Time : {ZeroTime, UnixTime(0), UnixTime(1234567890)}]

\* an attribute that is not in the Item
NoAttr == [t \in {} |-> JNull]
ItemOf(f) == [name \in {x \in DOMAIN f : f[x] # NoAttr} |-> f[name]]
\* Items as any writer may have stored them: attributes missing, well-formed,
\* under another tag, under two tags, under none of the six tags, or with a value
\* of another shape
Items ==
    {ItemOf(f) : f \in
        [Bool : {NoAttr, "N" :> JString(<<49>>), "N" :> JString(<<120>>),
                 "S" :> JString(<<49>>), "N" :> JNumber(1)},
         Byte : {NoAttr, "B" :> JString(EncodeToString(<<255>>))},
         ByteSlice : {NoAttr, "BS" :> JArray(<<JString(EncodeToString(<<255>>))>>)},
         Int : {NoAttr, "N" :> JString(<<52, 50>>), "N" :> JNumber(42),
                "N" :> JString(<<97, 98>>),
                ("N" :> JString(<<52, 50>>)) @@ ("S" :> JString(<<52, 50>>))},
         IntSlice : {NoAttr, "NS" :> JArray(<<JString(<<49>>), JString(<<50>>)>>),
                     "NS" :> JString(<<49>>), "NS" :> JArray(<<JString(<<49>>), JNumber(2)>>),
                     "NS" :> JArray(<<>>)},
         String : {NoAttr, "S" :> JString(<<66>>), "SS" :> JArray(<<JString(<<66>>)>>),
                   "NULL" :> JBool(TRUE)},
         StringSlice : {NoAttr, "SS" :> JArray(<<JString(<<66>>)>>),
                        "SS" :> JArray(<<JBool(TRUE)>>)},
         Time : {NoAttr, "N" :> JString(<<53>>)}]}

EmptyItem == ItemOf([Bool |-> NoAttr])

IdleCodec ==
    /\ m = ZeroModel
    /\ buf = <<>>
    /\ data = EmptyItem
    /\ before = [R |-> ZeroModel, m |-> ZeroModel]
    /\ cpc = "idle"
    /\ panicked = FALSE

IdleGen ==
    /\ decl = <<>>
    /\ force = FALSE
    /\ outFile = NoFile
    /\ prevFile = NoFile
    /\ genpc = "idle"

IdleTable ==
    /\ store = EmptyTable
    /\ item = [Name |-> "", Weight |-> 0, Height |-> 0]
    /\ lastOp = [op |-> "none"]
    /\ addedLive = {}

(***************************************************************************)
(* Two CallBytes invocations running concurrently on one Client            *)
(***************************************************************************)
CallIds == {1, 2}

\* a plausible slip: the attempt counter is kept once for the Client
counterOf_Shared(c) == 1

\* attempt := 0 declares a local of the invocation: each call counts in its own
counterOf(c) == c

\* what callRaw hands to the loop of CallBytes: a body, a retryable Error, an Error
\* that is not retryable, a transport error
PairAnswers ==
    {callRaw(doErrcBranch([status |-> s, body |-> b, readOK |-> TRUE], NilErr)) :
        s \in {StatusOK, 500},
        b \in {Object(<<"InternalServerError">>),
               Object(<<"com.amazonaws.dynamodb.v20120810", "#", "ValidationException">>)}}
    \cup {callRaw(doErrcBranch(NilResp, [type |-> "transport", what |-> "timeout"]))}

\* no call has begun
NewCalls ==
    [pc |-> [c \in CallIds |-> "new"],
     attempt |-> [c \in CallIds |-> 0],
     answers |-> [c \in CallIds |-> <<>>],
     result |-> [c \in CallIds |-> [bytes |-> NilBody, err |-> NilErr]]]

IdlePair == calls = NewCalls

(***************************************************************************)
(* Initial state: a Client as configured, and CallBytes about to begin     *)
(***************************************************************************)
NotClassified == [done |-> FALSE, errtype |-> <<>>, retry |-> FALSE]

InitCall ==
    /\ pc = "call"
    /\ attempt = 0
    /\ ctx = [done |-> FALSE, err |-> NilErr]
    /\ gpc = "idle"
    /\ errc = <<>>
    /\ resp = NilResp
    /\ cancelRequested = FALSE
    /\ req = NilReq
    /\ nextId = 1
    /\ now = 0
    /\ sent = <<>>
    /\ builtAt = <<>>
    /\ sleeps = <<>>
    /\ result = [bytes |-> NilBody, err |-> NilErr]
    /\ lastRaw = [bytes |-> NilBody, err |-> NilErr]
    /\ lastDo = [resp |-> NilResp, err |-> NilErr]
    /\ nCalls = 0
    /\ cancelPc = "none"
    /\ sentAtCancel = 0

Init ==
    /\ client \in [Retry : RetryForever..MaxRetry, canceler : BOOLEAN, urlOK : BOOLEAN]
    /\ InitCall
    /\ e = Error(NilBody, 0)
    /\ classified = NotClassified
    /\ IdleCodec
    /\ IdleGen
    /\ IdleTable
    /\ IdlePair

(***************************************************************************)
(* CallBytes: the rest of a loop turn once callRaw has returned raw        *)
(***************************************************************************)
Loop(raw) ==
    LET d == CallBytes(raw, attempt, client.Retry) IN
    /\ lastRaw' = raw
    /\ attempt' = d.attempt
    /\ IF d.next = "backoff"
       THEN /\ pc' = "backoff"
            /\ sleeps' = Append(sleeps, backoff(d.attempt))
            /\ UNCHANGED result
       ELSE /\ pc' = "done"
            /\ result' = [bytes |-> d.bytes, err |-> d.err]
            /\ UNCHANGED sleeps

\* top of the loop: callRaw builds the request and do starts the goroutine
Attempt ==
    /\ pc = "call"
    /\ nCalls' = nCalls + 1
    /\ IF ~client.urlOK
       THEN /\ Loop([bytes |-> NilBody, err |-> ErrNewRequest])
            /\ UNCHANGED <<gpc, errc, resp, cancelRequested, req, nextId, sent, builtAt>>
       ELSE /\ req' = newRequest(nextId, now)
            /\ nextId' = nextId + 1
            /\ errc' = <<>>
            /\ resp' = NilResp
            /\ cancelRequested' = FALSE
            /\ gpc' = "inflight"
            /\ sent' = Append(sent, req')
            /\ builtAt' = Append(builtAt, now)
            /\ pc' = "select"
            /\ UNCHANGED <<attempt, sleeps, result, lastRaw>>
    /\ UNCHANGED <<client, ctx, now, lastDo, cancelPc, sentAtCancel, e, classified, codecVars, genVars, tableVars, pairVars>>

\* the goroutine: resp, err = c.web.Do(req); errc <- err
HTTPComplete ==
    /\ gpc = "inflight"
    /\ \E o \in WebDoReturns(cancelRequested) :
          /\ resp' = o.resp
          /\ errc' = Append(errc, o.err)
    /\ gpc' = "exited"
    /\ UNCHANGED <<client, pc, attempt, ctx, cancelRequested, req, nextId, now, sent,
                   builtAt, sleeps, result, lastRaw, lastDo, nCalls, cancelPc,
                   sentAtCancel, e, classified, codecVars, genVars, tableVars, pairVars>>

\* a plausible slip: the cancellation branch returns without waiting for errc
SelectCtx_NoWait ==
    /\ pc = "select"
    /\ ctx.done
    /\ cancelRequested' = client.canceler
    /\ lastDo' = doCtxBranch(resp, ctx.err)
    /\ Loop(callRaw(lastDo'))
    /\ UNCHANGED <<client, ctx, gpc, errc, resp, req, nextId, now, sent, builtAt,
                   nCalls, cancelPc, sentAtCancel, e, classified, codecVars, genVars,
                   tableVars, pairVars>>

\* select, case <-ctx.Done(): CancelRequest when the transport has it, then <-errc
SelectCtx ==
    /\ pc = "select"
    /\ ctx.done
    /\ cancelRequested' = client.canceler
    /\ pc' = "waitErrc"
    /\ UNCHANGED <<client, attempt, ctx, gpc, errc, resp, req, nextId, now, sent, builtAt,
                   sleeps, result, lastRaw, lastDo, nCalls, cancelPc, sentAtCancel,
                   e, classified, codecVars, genVars, tableVars, pairVars>>

\* <-errc in the cancellation branch, then return nil, ctx.Err()
WaitErrc ==
    /\ pc = "waitErrc"
    /\ errc # <<>>
    /\ errc' = Tail(errc)
    /\ lastDo' = doCtxBranch(resp, ctx.err)
    /\ Loop(callRaw(lastDo'))
    /\ UNCHANGED <<client, ctx, gpc, resp, cancelRequested, req, nextId, now, sent,
                   builtAt, nCalls, cancelPc, sentAtCancel, e, classified, codecVars, genVars, tableVars, pairVars>>

\* select, case err := <-errc: return resp, err
SelectErrc ==
    /\ pc = "select"
    /\ errc # <<>>
    /\ errc' = Tail(errc)
    /\ lastDo' = doErrcBranch(resp, Head(errc))
    /\ Loop(callRaw(lastDo'))
    /\ UNCHANGED <<client, ctx, gpc, resp, cancelRequested, req, nextId, now, sent,
                   builtAt, nCalls, cancelPc, sentAtCancel, e, classified, codecVars, genVars, tableVars, pairVars>>

\* <-time.After(d): the sleep of backoff ends after d
BackoffDone ==
    /\ pc = "backoff"
    /\ now' = now + sleeps[Len(sleeps)]
    /\ pc' = "call"
    /\ UNCHANGED <<client, attempt, ctx, gpc, errc, resp, cancelRequested, req, nextId,
                   sent, builtAt, sleeps, result, lastRaw, lastDo, nCalls, cancelPc,
                   sentAtCancel, e, classified, codecVars, genVars, tableVars, pairVars>>

\* the caller cancels the context, or its deadline passes
Cancel ==
    /\ pc # "done"
    /\ ~ctx.done
    /\ \E cerr \in CtxErrs : ctx' = [done |-> TRUE, err |-> cerr]
    /\ cancelPc' = pc
    /\ sentAtCancel' = Len(sent)
    /\ UNCHANGED <<client, pc, attempt, gpc, errc, resp, cancelRequested, req, nextId,
                   now, sent, builtAt, sleeps, result, lastRaw, lastDo, nCalls,
                   e, classified, codecVars, genVars, tableVars, pairVars>>

\* time passes
Tick ==
    /\ pc # "done"
    /\ now < MaxTicks * TickMs
    /\ now' = now + TickMs
    /\ UNCHANGED <<client, pc, attempt, ctx, gpc, errc, resp, cancelRequested, req,
                   nextId, sent, builtAt, sleeps, result, lastRaw, lastDo, nCalls,
                   cancelPc, sentAtCancel, e, classified, codecVars, genVars, tableVars, pairVars>>

Next ==
    \/ Attempt
    \/ HTTPComplete
    \/ SelectCtx
    \/ WaitErrc
    \/ SelectErrc
    \/ BackoffDone
    \/ Cancel
    \/ Tick

Spec == Init /\ [][Next]_vars

\* the Go scheduler runs every runnable goroutine; the transport owes an answer
\* only to a request it was asked to cancel
FairSpec ==
    /\ Spec
    /\ WF_vars(Attempt)
    /\ WF_vars(SelectCtx \/ SelectErrc)
    /\ WF_vars(WaitErrc)
    /\ WF_vars(BackoffDone)
    /\ WF_vars(HTTPComplete /\ cancelRequested)

(***************************************************************************)
(* Error.Info and Error.Retry applied to one Error                         *)
(***************************************************************************)
ErrorBodies == {NilBody, Unparseable} \cup {Object(t) : t \in SeqsUpTo(Tokens, MaxTypeLen)}

InitClassify ==
    /\ client = [Retry |-> RetryDefault, canceler |-> TRUE, urlOK |-> TRUE]
    /\ InitCall
    /\ e \in {Error(b, s) : b \in ErrorBodies, s \in Statuses \ {StatusOK}}
    /\ classified = NotClassified
    /\ IdleCodec
    /\ IdleGen
    /\ IdleTable
    /\ IdlePair

Classify ==
    /\ ~classified.done
    /\ classified' = [done |-> TRUE, errtype |-> Info(e), retry |-> Retry(e)]
    /\ UNCHANGED <<callVars, e, codecVars, genVars, tableVars, pairVars>>

NextClassify == Classify

SpecClassify == InitClassify /\ [][NextClassify]_vars

(***************************************************************************)
(* The codec at work: Encode a record, parse the document, Decode it into  *)
(* a zero-valued record; or Decode an Item some writer stored              *)
(***************************************************************************)
IdleCall ==
    /\ client = [Retry |-> RetryDefault, canceler |-> TRUE, urlOK |-> TRUE]
    /\ InitCall
    /\ e = Error(NilBody, 0)
    /\ classified = NotClassified

InitCodec ==
    /\ IdleCall
    /\ \/ cpc = "start" /\ m \in Records /\ data = EmptyItem
       \/ cpc = "item" /\ m \in {ZeroModel, Populated} /\ data \in Items
    /\ buf = <<>>
    /\ before = [R |-> m, m |-> m]
    /\ panicked = FALSE
    /\ IdleGen
    /\ IdleTable
    /\ IdlePair

\* m.Encode(&buf)
EncodeRecord ==
    /\ cpc = "start"
    /\ \E nanos \in UnixNano(m.Time) : buf' = Encode(m, nanos)
    /\ cpc' = "encoded"
    /\ UNCHANGED <<m, data, before, panicked>>
    /\ UNCHANGED <<callVars, classifyVars, genVars, tableVars, pairVars>>

\* json.Unmarshal(buf.Bytes(), &data), and a zero-valued record to decode into
UnmarshalItem ==
    /\ cpc = "encoded"
    /\ data' = Unmarshal(buf)
    /\ m' = ZeroModel
    /\ before' = [R |-> m, m |-> ZeroModel]
    /\ cpc' = "parsed"
    /\ UNCHANGED <<buf, panicked>>
    /\ UNCHANGED <<callVars, classifyVars, genVars, tableVars, pairVars>>

\* m.Decode(data)
DecodeItem ==
    /\ cpc \in {"parsed", "item"}
    /\ LET r == Decode(m, data) IN
          /\ m' = r.m
          /\ panicked' = r.panicked
    /\ cpc' = IF cpc = "parsed" THEN "roundtrip" ELSE "decoded"
    /\ UNCHANGED <<buf, data, before>>
    /\ UNCHANGED <<callVars, classifyVars, genVars, tableVars, pairVars>>

NextCodec ==
    \/ EncodeRecord
    \/ UnmarshalItem
    \/ DecodeItem

SpecCodec == InitCodec /\ [][NextCodec]_vars

(***************************************************************************)
(* The generator at work: one call of parseFile                            *)
(***************************************************************************)
InitGen ==
    /\ IdleCall
    /\ IdleCodec
    /\ decl \in DeclsUpTo(MaxFields)
    /\ force \in BOOLEAN
    /\ prevFile \in {NoFile, HandEdited}
    /\ outFile = prevFile
    /\ genpc = "start"
    /\ IdleTable
    /\ IdlePair

ParseFile ==
    /\ genpc = "start"
    /\ outFile' = parseFile(decl, prevFile # NoFile, force, prevFile)
    /\ genpc' = "done"
    /\ UNCHANGED <<decl, force, prevFile>>
    /\ UNCHANGED <<callVars, classifyVars, codecVars, tableVars, pairVars>>

NextGen == ParseFile

SpecGen == InitGen /\ [][NextGen]_vars

(***************************************************************************)
(* The Table operations at work on one table, each call answered by the    *)
(* store before the next begins                                            *)
(***************************************************************************)
InitTable ==
    /\ IdleCall
    /\ IdleCodec
    /\ IdleGen
    /\ IdleTable
    /\ IdlePair

\* what lastOp records of a call
Done(op, rec, old, payload, err) ==
    [op |-> op, item |-> rec, old |-> old, payload |-> payload, err |-> err,
     storeBefore |-> store, addedBefore |-> addedLive]

Get ==
    \E rec \in MyItems, consistent \in BOOLEAN :
        LET payload == GetPayload(rec, consistent)
            r == GetResult(rec, Call(GetItem(store, payload).resp))
        IN  /\ item' = r.item
            /\ lastOp' = Done("Get", rec, rec, payload, r.err)
            /\ UNCHANGED <<store, addedLive>>
            /\ UNCHANGED <<callVars, classifyVars, codecVars, genVars, pairVars>>

Delete ==
    \E rec \in MyItems :
        LET payload == DeletePayload(rec)
            r == DeleteItem(store, payload)
            err == Call(r.resp).err
        IN  /\ store' = r.store
            /\ item' = rec
            /\ lastOp' = Done("Delete", rec, rec, payload, err)
            /\ addedLive' = IF err = NilErr THEN addedLive \ {rec.Name} ELSE addedLive
            /\ UNCHANGED <<callVars, classifyVars, codecVars, genVars, pairVars>>

Put ==
    \E rec \in MyItems :
        LET payload == PutPayload(rec)
            r == PutItem(store, payload)
        IN  /\ store' = r.store
            /\ item' = rec
            /\ lastOp' = Done("Put", rec, rec, payload, Call(r.resp).err)
            /\ UNCHANGED addedLive
            /\ UNCHANGED <<callVars, classifyVars, codecVars, genVars, pairVars>>

PutIf ==
    \E newItem \in MyItems, oldItem \in MyItems :
        LET payload == PutIfPayload(newItem, oldItem)
            r == PutItem(store, payload)
        IN  /\ store' = r.store
            /\ item' = newItem
            /\ lastOp' = Done("PutIf", newItem, oldItem, payload, Call(r.resp).err)
            /\ UNCHANGED addedLive
            /\ UNCHANGED <<callVars, classifyVars, codecVars, genVars, pairVars>>

Add ==
    \E rec \in MyItems :
        LET payload == AddPayload(rec)
            r == PutItem(store, payload)
            err == Call(r.resp).err
        IN  /\ store' = r.store
            /\ item' = rec
            /\ lastOp' = Done("Add", rec, rec, payload, err)
            /\ addedLive' = IF err = NilErr THEN addedLive \cup {rec.Name} ELSE addedLive
            /\ UNCHANGED <<callVars, classifyVars, codecVars, genVars, pairVars>>

NextTable ==
    \/ Get
    \/ Delete
    \/ Put
    \/ PutIf
    \/ Add

SpecTable == InitTable /\ [][NextTable]_vars

(***************************************************************************)
(* The specification of two concurrent CallBytes calls: each turn of a     *)
(* call's loop is one step, and the steps of the two calls interleave      *)
(***************************************************************************)
InitPair ==
    /\ client \in [Retry : RetryForever..MaxRetry, canceler : {TRUE}, urlOK : {TRUE}]
    /\ InitCall
    /\ e = Error(NilBody, 0)
    /\ classified = NotClassified
    /\ IdleCodec
    /\ IdleGen
    /\ IdleTable
    /\ IdlePair

\* CallBytes is entered: attempt := 0
CallStart ==
    \E c \in CallIds :
        /\ calls.pc[c] = "new"
        /\ calls' = [calls EXCEPT !.pc[c] = "call", !.attempt[counterOf(c)] = 0]
        /\ UNCHANGED <<callVars, classifyVars, codecVars, genVars, tableVars>>

\* one turn of the loop: callRaw returns raw, then CallBytes returns or counts the
\* failure and goes to sleep
CallTurn ==
    \E c \in CallIds, raw \in PairAnswers :
        LET d == CallBytes(raw, calls.attempt[counterOf(c)], client.Retry) IN
        /\ calls.pc[c] = "call"
        /\ calls' = [calls EXCEPT
                        !.attempt[counterOf(c)] = d.attempt,
                        !.answers[c] = Append(@, raw),
                        !.pc[c] = IF d.next = "backoff" THEN "backoff" ELSE "done",
                        !.result[c] = IF d.next = "backoff" THEN @
                                      ELSE [bytes |-> d.bytes, err |-> d.err]]
        /\ UNCHANGED <<callVars, classifyVars, codecVars, genVars, tableVars>>

\* the sleep of backoff ends
CallWake ==
    \E c \in CallIds :
        /\ calls.pc[c] = "backoff"
        /\ calls' = [calls EXCEPT !.pc[c] = "call"]
        /\ UNCHANGED <<callVars, classifyVars, codecVars, genVars, tableVars>>

NextPair ==
    \/ CallStart
    \/ CallTurn
    \/ CallWake

SpecPair == InitPair /\ [][NextPair]_vars

(***************************************************************************)
(* Properties                                                              *)
(***************************************************************************)
\* the attempt's error is a remote error that Error.Retry accepts
IsRetryable(err) == err.type = "Error" /\ Retry(err)
\* the call is over and its last attempt was answered with a retryable remote error
EndedOnRetryable == pc = "done" /\ nCalls > 0 /\ IsRetryable(lastRaw.err)
InDo == pc \in {"select", "waitErrc"}

C2_ForeverNeverExhausted ==
    client.Retry = RetryForever => ~(pc = "done" /\ result.err = ErrRetryExhausted)

\* C3: with Retry = RetryNever, a retryable remote error on the first attempt is
\* returned to the caller as it is, after no sleep and no second attempt.
C3_NeverSurfacesRemoteError ==
    (client.Retry = RetryNever /\ EndedOnRetryable)
        => (sleeps = <<>> /\ nCalls = 1 /\ result.err = lastRaw.err)

\* C4: once the context is cancelled during a backoff sleep, no further request is
\* signed or sent, and CallBytes returns the context's error.
C4_CancelInBackoffStops ==
    cancelPc = "backoff"
        => (Len(sent) = sentAtCancel /\ (pc = "done" => result.err = ctx.err))

\* C5: when the context is done while the HTTP call of do is in flight, do
\* eventually returns, also when the call itself never completes.
C5_DoReturnsAfterCancel ==
    (ctx.done /\ InDo /\ gpc = "inflight") ~> ~InDo

\* C6: do never returns both a response and the context's error: with the context's
\* error the response is nil, and with a response the error is not the context's.
C6_ResponseXorCancellation ==
    /\ lastDo.err \in CtxErrs => lastDo.resp = NilResp
    /\ lastDo.resp # NilResp => lastDo.err \notin CtxErrs

\* do took the cancellation branch after the goroutine had stored a response
C6_Witness == lastDo.err \in CtxErrs /\ resp # NilResp /\ pc = "done"

\* C7: an attempt failing with anything but a retryable remote error ends the call
\* with that very error, with no sleep and no attempt after it, whatever the budget
\* and however many retryable failures came before.
C7_NonRetryableReturnedUnchanged ==
    (pc = "done" /\ lastRaw.err # NilErr /\ ~IsRetryable(lastRaw.err))
        => (/\ result = [bytes |-> NilBody, err |-> lastRaw.err]
            /\ Len(sleeps) = attempt
            /\ nCalls = attempt + 1)

\* a non-retryable remote error after two retryable ones
C7_Witness ==
    /\ pc = "done" /\ attempt = 2
    /\ lastRaw.err.type = "Error" /\ ~Retry(lastRaw.err)
    /\ result.err = lastRaw.err

\* C8: after k < Retry retryable failures, a successful attempt k+1 ends the call
\* with that attempt's response bytes and a nil error, with no attempt or sleep
\* after it.
C8_SuccessAfterRetries ==
    (/\ pc = "done" /\ client.Retry > 0 /\ attempt < client.Retry
     /\ lastDo.err = NilErr /\ lastDo.resp.status = StatusOK /\ lastDo.resp.readOK)
        => (/\ result = [bytes |-> lastDo.resp.body, err |-> NilErr]
            /\ lastDo.resp = resp
            /\ nCalls = attempt + 1
            /\ Len(sent) = attempt + 1
            /\ Len(sleeps) = attempt)

C8_Witness ==
    /\ pc = "done" /\ client.Retry = 3 /\ attempt = 2
    /\ lastDo.err = NilErr /\ lastDo.resp.status = StatusOK /\ lastDo.resp.readOK
    /\ result.bytes = resp.body /\ result.err = NilErr

\* C9: Error.Retry answers true exactly for the kinds InternalServerError,
\* ProvisionedThroughputExceededException and ServiceUnavailableException; the kind
\* of '<namespace>#K' is K; a nil body and an unparseable body are not retryable.
C9_RetryClassification ==
    classified.done =>
        /\ classified.retry =
               (classified.errtype \in {<<"InternalServerError">>,
                                        <<"ProvisionedThroughputExceededException">>,
                                        <<"ServiceUnavailableException">>})
        /\ e.Body.form # "object" => ~classified.retry
        /\ \A ns \in Tokens \ {"#"}, k \in Tokens \ {"#"} :
               e.Body = Object(<<ns, "#", k>>)
                   => /\ classified.errtype = <<k>>
                      /\ classified.retry =
                             (k \in {"InternalServerError",
                                     "ProvisionedThroughputExceededException",
                                     "ServiceUnavailableException"})

C9_Witness ==
    /\ classified.done
    /\ e.Body = Object(<<"com.amazonaws.dynamodb.v20120810", "#",
                         "ProvisionedThroughputExceededException">>)
    /\ classified.errtype = <<"ProvisionedThroughputExceededException">>
    /\ classified.retry

\* C10: every request sent was built by the newRequest call of its own attempt: its
\* timestamp is the clock of that attempt, its signature is the one of that
\* timestamp, and no request object is sent twice.
C10_FreshRequestPerAttempt ==
    /\ Len(sent) = Len(builtAt)
    /\ client.urlOK => Len(sent) = nCalls
    /\ \A i \in 1..Len(sent) :
          /\ sent[i].datetime = Format(builtAt[i])
          /\ sent[i].sig = Signature(Format(builtAt[i]))
    /\ \A i, j \in 1..Len(sent) : i # j => sent[i].id # sent[j].id

\* a retry whose timestamp and signature differ from the first attempt's
C10_Witness ==
    /\ Len(sent) >= 2
    /\ sent[1].datetime # sent[2].datetime
    /\ sent[1].sig # sent[2].sig

\* well-formed UTF-8 from the 0-based index i on
RECURSIVE validFrom(_, _)
validFrom(s, i) ==
    IF i >= Len(s) THEN TRUE
    ELSE LET c == DecodeRuneInString(s, i) IN c.ok /\ validFrom(s, i + c.size)
ValidUTF8(s) == validFrom(s, 0)
\* the record's strings are well-formed UTF-8 and its time has Unix nanoseconds
Representable(rec) ==
    /\ ValidUTF8(rec.String)
    /\ \A i \in 1..Len(rec.StringSlice) : ValidUTF8(rec.StringSlice[i])
    /\ rec.Time.era = "unix"

\* C11 as stated: for every record of representable kinds, decoding what Encode
\* wrote into a zero-valued record yields a record equal to it in every field.
C11_RoundTripEveryRecord ==
    cpc = "roundtrip" => (~panicked /\ m = before.R)

\* C11 amended: the round trip returns the record when its strings are well-formed
\* UTF-8 and its time lies in the range Unix nanoseconds can name (slices compared
\* by their elements, times as instants).
C11_RoundTripRepresentable ==
    (cpc = "roundtrip" /\ Representable(before.R)) => (~panicked /\ m = before.R)

\* a record with bytes that need escaping, a two-byte rune and a negative number
\* came back from the round trip
C11_Witness ==
    /\ cpc = "roundtrip"
    /\ m = before.R
    /\ \/ before.R.String = <<34, 195, 169>>
       \/ before.R.String = <<195, 169>>
       \/ before.R.Int = -1 /\ before.R.Byte = <<255>> /\ before.R.Time = UnixTime(0)

\* the attribute of the field has the tag and the shape its statement in Decode expects
FieldTag ==
    [Bool |-> "N", Byte |-> "B", ByteSlice |-> "BS", Int |-> "N", IntSlice |-> "NS",
     String |-> "S", StringSlice |-> "SS", Time |-> "N"]
IsSetField(name) == name \in {"ByteSlice", "IntSlice", "StringSlice"}
Matches(d, name) ==
    LET v == Lookup(d, name, FieldTag[name]) IN
    IF IsSetField(name)
    THEN v.k = "array" /\ \A i \in 1..Len(v.a) : v.a[i].k = "string"
    ELSE v.k = "string"
MatchingPart(d) == [name \in {x \in DOMAIN d : Matches(d, x)} |-> d[name]]

\* C12: Decode never panics; an attribute whose tag or shape does not match the
\* field is skipped, its field is unchanged, and the other fields are decoded as
\* if the Item held only the matching attributes.
C12_DecodeSkipsMismatches ==
    cpc = "decoded" => (~panicked /\ m = Decode(before.m, MatchingPart(data)).m)

\* C13: a field whose attribute is missing from the Item keeps the value it had,
\* zero in a zero-valued record, and an Item whose present attributes all match
\* their fields is decoded without a panic and as its attributes say.
C13_MissingAttributeUntouched ==
    cpc = "decoded" =>
        /\ \A name \in (DOMAIN ZeroModel) \ (DOMAIN data) : m[name] = before.m[name]
        /\ (\A name \in DOMAIN data : Matches(data, name)) => ~panicked

\* the Item lacked String and Bool but had Int: Int was decoded into the populated
\* record and String and Bool kept their values
C13_Witness ==
    /\ cpc = "decoded"
    /\ before.m = Populated
    /\ "String" \notin DOMAIN data
    /\ "Bool" \notin DOMAIN data
    /\ "Int" \in DOMAIN data
    /\ m.Int = 42
    /\ m.String = Populated.String
    /\ m.Bool = Populated.Bool

\* what C16 says toJSON writes for s from the 0-based index i on
RECURSIVE escaped(_, _)
escaped(s, i) ==
    IF i >= Len(s) THEN <<>>
    ELSE LET b == s[i + 1]
             c == DecodeRuneInString(s, i)
         IN  IF b \in {34, 92} THEN <<92, b>> \o escaped(s, i + 1)
             ELSE IF b = 10 THEN <<92, 110>> \o escaped(s, i + 1)
             ELSE IF b = 13 THEN <<92, 114>> \o escaped(s, i + 1)
             ELSE IF b < 32 \/ b \in {60, 62, 38}
             THEN <<92, 117, 48, 48, hex[(b \div 16) + 1], hex[(b % 16) + 1]>>
                  \o escaped(s, i + 1)
             ELSE IF ~c.ok THEN <<92, 117, 102, 102, 102, 100>> \o escaped(s, i + 1)
             ELSE Slice(s, i, i + c.size) \o escaped(s, i + c.size)
\* no raw '<', '>', '&' or control byte, and every quote follows a backslash
NothingRaw(out) ==
    \A j \in 1..Len(out) :
        /\ out[j] \notin {60, 62, 38}
        /\ out[j] >= 32
        /\ out[j] = 34 => (j > 1 /\ out[j - 1] = 92)

\* C16: toJSON copies its input except for the escapes of quote, backslash, newline,
\* carriage return, the other bytes below 0x20, '<', '>', '&' and invalid UTF-8
\* bytes, so its output has no raw '<', '>', '&', unescaped quote or control byte.
C16_toJSONEscapes ==
    cpc = "encoded" =>
        /\ buf[6].val.lit = escaped(m.String, 0)
        /\ NothingRaw(buf[6].val.lit)
        /\ \A i \in 1..Len(m.StringSlice) :
              /\ buf[7].val.elems[i] = escaped(m.StringSlice[i], 0)
              /\ NothingRaw(buf[7].val.elems[i])

\* the string '&' followed by the invalid byte 0xFF was written as the 12 bytes
\* of its two escapes
C16_Witness ==
    /\ cpc = "encoded"
    /\ m.String = <<38, 255>>
    /\ buf[6].val.lit = <<92, 117, 48, 48, 50, 54, 92, 117, 102, 102, 102, 100>>

\* the canonical request under the signature of a request: the text hashed into
\* the string to sign
CanonicalOf(r) == r.sig[3][4][2]
\* the lines that C17 and the code agree on: method, path, query, the four headers,
\* a blank line and the signed-header names
HeadOfCanonical(c, r) ==
    /\ Len(c) >= 9
    /\ c[1] = <<"POST">>
    /\ c[2] = <<"/">>
    /\ c[3] = <<"">>
    /\ c[4] = <<"content-type:", "application/x-amz-json-1.0">>
    /\ c[5] = <<"host:", Endpoint.host>>
    /\ c[6] = <<"x-amz-date:", r.datetime>>
    /\ c[7] = <<"x-amz-target:", "DynamoDB_20120810.", Method>>
    /\ c[8] = <<"">>
    /\ c[9] = <<"content-type;host;x-amz-date;x-amz-target">>

\* C17 as stated: the canonical request is the method line, the path line, an empty
\* query line, the four header lines, a blank line, the signed-header names, a blank
\* line, and the hex SHA-256 of the payload.
C17_BlankLineBeforeHash ==
    \A i \in 1..Len(sent) :
        LET c == CanonicalOf(sent[i]) IN
        /\ Len(c) = 11
        /\ HeadOfCanonical(c, sent[i])
        /\ c[10] = <<"">>
        /\ c[11] = <<sha256hex(Payload)>>

\* C17 amended: the same lines in the same order, with the hex SHA-256 of the payload
\* on the line right after the signed-header names.
C17_HashAfterSignedHeaders ==
    \A i \in 1..Len(sent) :
        LET c == CanonicalOf(sent[i]) IN
        /\ Len(c) = 10
        /\ HeadOfCanonical(c, sent[i])
        /\ c[10] = <<sha256hex(Payload)>>

\* two requests were signed at different seconds, each over its own canonical request
C17_Witness ==
    /\ Len(sent) >= 2
    /\ sent[1].datetime # sent[2].datetime
    /\ CanonicalOf(sent[2])[6] = <<"x-amz-date:", sent[2].datetime>>
    /\ CanonicalOf(sent[2])[10] = <<sha256hex(Payload)>>

\* the emitted statements that read or assign a field of the record
FieldStatements(file) ==
    {file.encode[i] : i \in {j \in 1..Len(file.encode) : file.encode[j].stmt # "WriteString"}}
    \cup {file.decode[i] : i \in 1..Len(file.decode)}

\* C14: when the output file exists and force is false, parseFile writes nothing and
\* the file's content is unchanged; the file is replaced only when force is true.
C14_NoOverwriteWithoutForce ==
    (genpc = "done" /\ prevFile # NoFile /\ ~force) => outFile = prevFile

\* C15: no emitted Encode or Decode statement refers to a field whose name does not
\* start with an upper-case letter, tagged or not.
C15_NoCodeForUnexported ==
    genpc = "done" => \A st \in FieldStatements(outFile) : IsUpper(st.selector)

\* C18: once Add has succeeded for a key, every later Add with that key returns an
\* error and leaves the table as it was, until the key is deleted (after which Add
\* succeeds again); every Add sends an Exists:false expectation for each key attribute.
C18_AddRefusesExistingKey ==
    lastOp.op = "Add" =>
        /\ lastOp.payload.Expected = [name \in {"MyItem2"} |-> [Exists |-> FALSE]]
        /\ lastOp.item.Name \in lastOp.addedBefore =>
              (lastOp.err # NilErr /\ store = lastOp.storeBefore)
        /\ lastOp.item.Name \notin DOMAIN lastOp.storeBefore =>
              (lastOp.err = NilErr /\ store[lastOp.item.Name] = encode(lastOp.item, FALSE, FALSE))

\* an Add of other values for a key added before was refused and the stored item kept
C18_Witness ==
    /\ lastOp.op = "Add"
    /\ lastOp.item.Name \in lastOp.addedBefore
    /\ lastOp.err # NilErr
    /\ store[lastOp.item.Name] # encode(lastOp.item, FALSE, FALSE)
    /\ store = lastOp.storeBefore

\* C19: PutIf(newItem, oldItem) succeeds and stores newItem when the item stored
\* under the key equals oldItem in every attribute, and returns an error and leaves
\* the table unchanged when that item differs from oldItem in some attribute.
C19_PutIfComparesEveryAttribute ==
    (lastOp.op = "PutIf" /\ lastOp.item.Name \in DOMAIN lastOp.storeBefore) =>
        IF lastOp.storeBefore[lastOp.item.Name] = encode(lastOp.old, FALSE, FALSE)
        THEN lastOp.err = NilErr /\ store[lastOp.item.Name] = encode(lastOp.item, FALSE, FALSE)
        ELSE lastOp.err # NilErr /\ store = lastOp.storeBefore

\* a PutIf whose oldItem matched replaced the stored item by a different one
C19_Witness ==
    /\ lastOp.op = "PutIf"
    /\ lastOp.item.Name \in DOMAIN lastOp.storeBefore
    /\ lastOp.storeBefore[lastOp.item.Name] = encode(lastOp.old, FALSE, FALSE)
    /\ lastOp.item # lastOp.old
    /\ lastOp.err = NilErr
    /\ store[lastOp.item.Name] = encode(lastOp.item, FALSE, FALSE)

\* C20: Get returns a nil error and fills the record with the stored attributes
\* exactly when an item with the record's key is stored; otherwise it returns an
\* error and leaves the record as it was passed.
C20_GetMirrorsTheTable ==
    lastOp.op = "Get" =>
        IF lastOp.item.Name \in DOMAIN store
        THEN lastOp.err = NilErr /\ encode(item, FALSE, FALSE) = store[lastOp.item.Name]
        ELSE lastOp.err # NilErr /\ item = lastOp.item

\* a Get with a record holding only the key came back with the stored weight
C20_Witness ==
    /\ lastOp.op = "Get"
    /\ lastOp.err = NilErr
    /\ lastOp.item.Weight = 0
    /\ item.Weight = 80
    /\ lastOp.item.Height # item.Height

\* the tags of an AttributeValue
Tags == {"S", "N", "B", "SS", "NS", "BS"}

\* C21: Decode never sets a field from an attribute value that carries none or more
\* than one of the tags S, N, B, SS, NS, BS.
C21_RejectsZeroOrManyTags ==
    cpc = "decoded" =>
        \A name \in DOMAIN data :
            Cardinality(DOMAIN data[name] \cap Tags) # 1 => m[name] = before.m[name]

\* C30: after Decode, each set-valued field present in the Item holds exactly the
\* Item's elements in their order, whatever it held before, so that decoding the
\* same Item once more changes nothing.
C30_SetFieldsHoldTheItem ==
    (cpc = "decoded" /\ ~panicked) =>
        /\ \A name \in DOMAIN data :
              (IsSetField(name) /\ Matches(data, name))
                  => m[name] = Decode(ZeroModel, data).m[name]
        /\ Decode(m, data).m = m

\* C22: the sleep after the k-th retryable failure of a call lasts 2^k * 50ms, so
\* each sleep of a call is twice the one before; while CallBytes sleeps, k is its
\* attempt counter.
C22_SleepIsTwoToTheAttempt ==
    /\ \A k \in 1..Len(sleeps) : sleeps[k] = (2 ^ k) * 50
    /\ \A k \in 1..(Len(sleeps) - 1) : sleeps[k + 1] = 2 * sleeps[k]
    /\ pc = "backoff" => (attempt = Len(sleeps) /\ attempt >= 1)

\* CallBytes is in its second sleep, of 200ms, after one of 100ms
C22_Witness == pc = "backoff" /\ attempt = 2 /\ sleeps = <<100, 200>>

\* C23: the kind Error.Info returns is the text after the first '#' of __type
\* wherever the '#' stands, the first character included, and the whole __type
\* when it holds no '#'.
C23_KindFollowsSeparator ==
    (classified.done /\ e.Body.form = "object") =>
        LET t == e.Body.type
        IN  /\ (\A i \in 1..Len(t) : t[i] # "#") => classified.errtype = t
            /\ \A i \in 1..Len(t) :
                  (t[i] = "#" /\ \A j \in 1..(i - 1) : t[j] # "#")
                      => classified.errtype = SubSeq(t, i + 1, Len(t))

\* C24: when the context was cancelled before an attempt of CallBytes started (at
\* the call or between two attempts), CallBytes returns the context's error: it
\* returns no response, does not go on to a backoff sleep and does not return
\* ErrRetryExhausted.
C24_CancelledBeforeAttemptReturnsCtxErr ==
    (client.urlOK /\ cancelPc = "call") =>
        /\ pc # "backoff"
        /\ pc = "done" => (result.err = ctx.err /\ result.bytes = NilBody)

\* C28: once do has returned, the response the HTTP call of the attempt obtained is
\* the one do handed to callRaw, whose deferred Close then closes its body; so no
\* response is left unclosed when CallBytes sleeps, loops or returns.
C28_EveryResponseBodyClosed ==
    (pc \in {"call", "backoff", "done"} /\ resp # NilResp) =>
        (lastDo.resp = resp /\ lastDo.err = NilErr)

\* C27: the goroutine of do never blocks on its send and do never returns before it
\* has ended: errc, of capacity 1 and fresh for each do, is empty while the HTTP
\* call is in flight, holds the result from the goroutine's end until do takes it
\* on either branch of the select, and the goroutine has ended (it cannot write
\* resp any more) whenever do has returned.
C27_GoroutineEndsBeforeDoReturns ==
    /\ Len(errc) <= 1
    /\ gpc = "inflight" => (errc = <<>> /\ pc \in {"select", "waitErrc"})
    /\ (gpc = "exited" /\ pc \in {"select", "waitErrc"}) => Len(errc) = 1
    /\ pc \in {"call", "backoff", "done"} => (gpc # "inflight" /\ errc = <<>>)

\* do has returned on the cancellation branch after the goroutine delivered its
\* result and ended
C27_Witness ==
    /\ pc = "done"
    /\ gpc = "exited"
    /\ cancelPc = "select"
    /\ lastDo = doCtxBranch(resp, ctx.err)
    /\ errc = <<>>

\* C26: every field the classifier of parseFile accepts has its kind in kindMap, a
\* statement of the generated Encode that writes it and a statement of the
\* generated Decode that reads it.
C26_EveryClassifiedFieldHasCode ==
    genpc = "done" =>
        \A i \in 1..Len(fieldsOf(decl)) :
            LET field == fieldsOf(decl)[i] IN
            /\ field.kind \in DOMAIN kindMap
            /\ \E j \in 1..Len(outFile.encode) :
                  /\ outFile.encode[j].stmt # "WriteString"
                  /\ outFile.encode[j].selector = field.name
            /\ \E j \in 1..Len(outFile.decode) : outFile.decode[j].selector = field.name

\* the literal text the generated Encode writes for a record whose values and sets
\* are empty: the texts of its WriteString statements in their order
RECURSIVE LiteralText(_)
LiteralText(stmts) ==
    IF stmts = <<>> THEN <<>>
    ELSE (IF Head(stmts).stmt = "WriteString" THEN Head(stmts).text ELSE <<>>)
         \o LiteralText(Tail(stmts))

\* the number of positions of text that hold the byte b
Count(text, b) == Cardinality({i \in 1..Len(text) : text[i] = b})

\* C29: when the generated Encode writes an attribute at all, what it writes is one
\* JSON object: it opens with '{' and closes with '}', its braces pair up, there
\* is one comma between two attributes and none before the closing brace, and an
\* empty set is written as [].
C29_EncodeWritesOneObject ==
    (genpc = "done" /\ \E j \in 1..Len(outFile.encode) : outFile.encode[j].stmt = "range"
                                                        \/ outFile.encode[j].stmt = "write") =>
        LET text == LiteralText(outFile.encode)
            attrs == Cardinality({j \in 1..Len(outFile.encode) :
                                      outFile.encode[j].stmt # "WriteString"})
        IN  /\ Len(text) >= 2
            /\ text[1] = 123
            /\ text[Len(text)] = 125
            /\ Count(text, 123) = Count(text, 125)
            /\ Count(text, 44) = attrs - 1
            /\ \A i \in 1..(Len(text) - 1) :
                  /\ ~(text[i] = 44 /\ text[i + 1] \in {44, 125})
                  /\ text[i] = 91 => text[i + 1] = 93

\* what a CallBytes call that runs alone makes of the answers raws, from the
\* counter value att on
RECURSIVE loopAlone(_, _, _)
loopAlone(raws, att, retry) ==
    IF raws = <<>> THEN [next |-> "loop", bytes |-> NilBody, err |-> NilErr, attempt |-> att]
    ELSE LET d == CallBytes(Head(raws), att, retry) IN
         IF d.next = "backoff" THEN loopAlone(Tail(raws), d.attempt, retry) ELSE d

\* each of the two calls stands where it would stand had it run alone
EachCallAsAlone ==
    \A c \in CallIds :
        LET alone == loopAlone(calls.answers[c], 0, client.Retry) IN
        /\ calls.pc[c] # "new" => calls.attempt[c] = alone.attempt
        /\ calls.pc[c] \in {"call", "backoff"} =>
              /\ alone.next = "loop"
              /\ calls.attempt[c] = Len(calls.answers[c])
              /\ \A i \in 1..Len(calls.answers[c]) : IsRetryable(calls.answers[c][i].err)
        /\ calls.pc[c] = "done" =>
              /\ alone.next = "return"
              /\ calls.result[c] = [bytes |-> alone.bytes, err |-> alone.err]

\* C25: two CallBytes calls running concurrently on one Client keep separate retry
\* state: in every interleaving each call's attempt counter counts its own
\* retryable failures only and its outcome is the one the same answers give a call
\* running alone; and no step of a call changes the Client.
C25_CallsKeepSeparateRetryState ==
    /\ []EachCallAsAlone
    /\ [][client' = client]_vars

\* call 1 has used up its budget on three retryable failures and call 2 has
\* returned a body on its first answer with its counter at 0
C25_Witness ==
    /\ calls.pc[1] = "done"
    /\ calls.result[1].err = ErrRetryExhausted
    /\ calls.attempt[1] = 3
    /\ calls.pc[2] = "done"
    /\ calls.result[2].err = NilErr
    /\ calls.attempt[2] = 0

====
